---- MODULE Spec2Model ----
(***************************************************************************)
(* A model of go-spring/spring-core: the Application lifecycle wrapper     *)
(* (app.go: prepare, resolveProperty, start, Run, close, ShutDown) and the *)
(* function argument binder (bean: NewFnStringBindingArg, Get).            *)
(*                                                                         *)
(* Go strings are modelled as sequences of one-character strings, so that  *)
(* slicing, strings.HasPrefix, strings.Index and strconv.Atoi are computed *)
(* the way the code computes them.                                         *)
(***************************************************************************)
EXTENDS Integers, Sequences, FiniteSets, TLC

VARIABLES
    \* ---- configuration (Application.prepare) ----
    appProps,      \* app.Properties(): the ApplicationContext property map
    appProfile,    \* app.GetProfile()
    osArgs,        \* os.Args
    osEnviron,     \* os.Environ(), as a map key -> value
    expectSys,     \* keys of os.Environ() matched by app.expectSysProperties
    configFiles,   \* profile name -> content of the configuration file(s)
    prepPc,        \* "new" | "done" | "panic": where prepare() is
    prepErr,       \* the value prepare() panicked with
    apiConfig,     \* prepare's local apiConfig: the copy of the code-set properties
    priority,      \* prepare's local p: the priority list of layers
    properties     \* prepare's local map `properties`

    \* ---- argument binding (bean.fnStringBindingArg) ----
VARIABLES
    fnNumIn,       \* fnType.NumIn()
    fnVariadic,    \* fnType.IsVariadic()
    withReceiver,  \* whether the first parameter is the receiver
    tags,          \* the tags given to NewFnStringBindingArg
    argPc,         \* "new" | "built" | "panic" | "got"
    argErr,        \* the value NewFnStringBindingArg panicked with
    fnTags,        \* fnStringBindingArg.fnTags
    result         \* what fnStringBindingArg.Get returned

    \* ---- lifecycle (Application.Run, start, close, ShutDown) ----
VARIABLES
    mainPc,        \* where the goroutine that calls Run is
    idx,           \* how many entries the loop that goroutine is in has done
    exitChan,      \* app.exitChan: "open" | "closed"
    tpc,           \* where each other goroutine is
    calls,         \* ShutDown calls each goroutine has returned from
    shutdownBy,    \* the goroutines that have called ShutDown
    overlapped,    \* whether two ShutDown calls have been under way at once
    closeCount,    \* how many times close(app.exitChan) was executed
    crash,         \* the panic that ended the process, if any
    autowired,     \* whether AutoWireBeans has completed
    started,       \* OnStartApplication calls, by listener
    stopped,       \* OnStopApplication calls, by listener
    invokeLog,     \* the Invoke calls made: what each found and did
    events,        \* what the goroutine of Run has done so far, in order
    closedEarly    \* whether exitChan was closed while start() was under way

    \* ---- option arguments (bean.FnOptionBindingArg, bean.OptionArg) ----
VARIABLES
    optionDecls,   \* the options as declared: condition, option function, tags
    Options,       \* FnOptionBindingArg.Options, as NewOptionArg built them
    optPc,         \* "new" | "built" | "panic" | "got"
    optErr,        \* the value NewOptionArg panicked with
    optResult,     \* what FnOptionBindingArg.Get returned
    optCalled,     \* the option functions called, in order
    optBound       \* the declarations whose arguments were bound, in order

    \* ---- conditions at AutoWireBeans (core, cond) ----
VARIABLES
    conds,         \* definition -> its condition
    parents,       \* definition -> the definition it is a method bean of
    registry,      \* the definitions registered, in registration order
    status,        \* definition -> "undecided" | "resolved" | "excluded"
    wirePc,        \* "registering" | "wiring" | "done" | "panic"
    nilReceiver    \* whether a method was invoked on a parent that is not there

confVars == <<appProps, appProfile, osArgs, osEnviron, expectSys, configFiles,
              prepPc, prepErr, apiConfig, priority, properties>>

argVars == <<fnNumIn, fnVariadic, withReceiver, tags, argPc, argErr, fnTags, result>>

appVars == <<mainPc, idx, exitChan, tpc, calls, shutdownBy, overlapped, closeCount,
             crash, autowired, started, stopped, invokeLog, events, closedEarly>>

optVars == <<optionDecls, Options, optPc, optErr, optResult, optCalled, optBound>>

beanVars == <<conds, parents, registry, status, wirePc, nilReceiver>>

vars == <<confVars, argVars, appVars, optVars, beanVars>>

----------------------------------------------------------------------------
(* Bounds of the model.                                                    *)

\* Most entries the input maps (code-set properties, environment, files)
\* hold together in an initial state.
MaxEntries == 3

\* Most tags a binding list holds, and most parameters (the receiver not
\* counted) of the function bound.
MaxTags == 3
MaxParams == 2

\* Most options a constructor is declared with.
MaxOptions == 2

\* Most method beans among the definitions of a context.
MaxChildren == 1

\* The explicit ShutDown calls one goroutine makes, one after the other.
MaxCalls == 2

\* The AfterPrepare hooks, CommandLineRunners and ApplicationEvent listeners
\* of the application.
NumHooks == 1
NumRunners == 1
NumEvents == 2

\* The Invoke calls made on the context.
MaxInvokes == 2

\* Nested resolveProperty calls after which the goroutine stack is taken to
\* be exhausted (Go: "goroutine stack exceeds 1000000000-byte limit").
StackDepth == 4

----------------------------------------------------------------------------
(* Go strings.                                                             *)

EmptyMap == <<>>

\* strings.HasPrefix(s, prefix)
HasPrefix(s, prefix) ==
    /\ Len(s) >= Len(prefix)
    /\ SubSeq(s, 1, Len(prefix)) = prefix

\* s[lo:hi] with Go's 0-based, half-open bounds (lo <= hi <= len(s))
Slice(s, lo, hi) == SubSeq(s, lo + 1, hi)

\* conf.Properties.Set / a Go map assignment m[k] = v
MapSet(m, k, v) == [x \in (DOMAIN m) \cup {k} |-> IF x = k THEN v ELSE m[x]]

\* every order in which a range over a Go map with key set S may visit it
Orders(S) ==
    {o \in [1..Cardinality(S) -> S] : \A i, j \in DOMAIN o : i # j => o[i] # o[j]}

\* strings.Index(s, c) for a one-character c: the 0-based index of the
\* first c in s, -1 when there is none.
Index(s, c) ==
    IF \E i \in DOMAIN s : s[i] = c
    THEN (CHOOSE i \in DOMAIN s : s[i] = c /\ \A j \in 1..(i - 1) : s[j] # c) - 1
    ELSE -1

Digits == {"0", "1", "2", "3", "4", "5", "6", "7", "8", "9"}

DigitValue(c) ==
    CASE c = "0" -> 0 [] c = "1" -> 1 [] c = "2" -> 2 [] c = "3" -> 3 [] c = "4" -> 4
      [] c = "5" -> 5 [] c = "6" -> 6 [] c = "7" -> 7 [] c = "8" -> 8 [] c = "9" -> 9

\* the value of a string of decimal digits
RECURSIVE DecimalValue(_)
DecimalValue(s) ==
    IF s = <<>> THEN 0
    ELSE 10 * DecimalValue(SubSeq(s, 1, Len(s) - 1)) + DigitValue(s[Len(s)])

\* strconv.Atoi(s): <<err == nil, value>>. An optional sign, then one or
\* more decimal digits.
Atoi(s) ==
    LET signed == s # <<>> /\ s[1] \in {"+", "-"}
        digits == IF signed THEN Tail(s) ELSE s
    IN  IF digits = <<>> \/ \E i \in DOMAIN digits : digits[i] \notin Digits
        THEN <<FALSE, 0>>
        ELSE <<TRUE, IF signed /\ s[1] = "-" THEN 0 - DecimalValue(digits)
                     ELSE DecimalValue(digits)>>

----------------------------------------------------------------------------
(* Errors.                                                                 *)

NoErr == [kind |-> "none", arg |-> <<>>]

\* fmt.Errorf("property \"%s\" not config", refKey)
NotConfig(refKey) == [kind |-> "property not config", arg |-> refKey]

\* the Go runtime's fatal error on unbounded recursion
StackOverflow == [kind |-> "stack overflow", arg |-> <<>>]

\* the Go runtime's panic for s[2:len(s)-1] when len(s) < 3
SliceBounds == [kind |-> "slice bounds out of range", arg |-> <<>>]

----------------------------------------------------------------------------
(* The parts of the state a specification leaves alone.                    *)

\* No binding is under way.
ArgIdle ==
    /\ fnNumIn = 0 /\ fnVariadic = FALSE /\ withReceiver = FALSE
    /\ tags = <<>> /\ argPc = "idle" /\ argErr = NoErr
    /\ fnTags = <<>> /\ result = <<>>

\* The goroutines other than the one that calls Run: the signal listener
\* that Run starts, and those that call ShutDown themselves.
Callers == {"c1", "c2"}
Threads == {"sig"} \cup Callers
Events == 1..NumEvents

\* The application as NewApplication returns it, Run not called; pc is
\* where the main goroutine is.
AppNew(pc) ==
    /\ mainPc = pc /\ idx = 0 /\ exitChan = "open"
    /\ tpc = [t \in Threads |-> IF t = "sig" THEN "none" ELSE "idle"]
    /\ calls = [t \in Threads |-> 0]
    /\ shutdownBy = {} /\ overlapped = FALSE /\ closeCount = 0 /\ crash = NoErr
    /\ autowired = FALSE
    /\ started = [e \in Events |-> 0] /\ stopped = [e \in Events |-> 0]
    /\ invokeLog = <<>>
    /\ events = <<>> /\ closedEarly = FALSE

\* No option argument is in use.
OptIdle ==
    /\ optionDecls = <<>> /\ Options = <<>> /\ optPc = "idle" /\ optErr = NoErr
    /\ optResult = <<>> /\ optCalled = <<>> /\ optBound = <<>>

\* No bean definition is registered.
BeansIdle ==
    /\ conds = EmptyMap /\ parents = EmptyMap /\ registry = <<>>
    /\ status = EmptyMap /\ wirePc = "idle" /\ nilReceiver = FALSE

\* No prepare is under way.
ConfIdle ==
    /\ appProps = EmptyMap /\ appProfile = <<>> /\ osArgs = <<>>
    /\ osEnviron = EmptyMap /\ expectSys = {} /\ configFiles = EmptyMap
    /\ prepPc = "idle" /\ prepErr = NoErr /\ apiConfig = EmptyMap
    /\ priority = <<>> /\ properties = EmptyMap

----------------------------------------------------------------------------
(* Configuration layers (app.go: loadCmdArgs, loadSystemEnv,               *)
(* loadProfileConfig) and the priority list of package conf.               *)

Dash == <<"-">>

\* loadCmdArgs: the loop over os.Args from index i (0-based), p the
\* Properties built so far. Only "-name value" arguments count.
RECURSIVE loadCmdArgsFrom(_, _, _)
loadCmdArgsFrom(args, i, p) ==
    IF i >= Len(args) THEN p
    ELSE LET arg == args[i + 1] IN
         IF HasPrefix(arg, Dash)
         THEN LET k == Slice(arg, 1, Len(arg))
                  hasValue == i < Len(args) - 1 /\ ~HasPrefix(args[i + 2], Dash)
                  v == IF hasValue THEN args[i + 2] ELSE <<>>
                  next == IF hasValue THEN i + 2 ELSE i + 1
              IN  loadCmdArgsFrom(args, next, MapSet(p, k, v))
         ELSE loadCmdArgsFrom(args, i + 1, p)

loadCmdArgs(args) == loadCmdArgsFrom(args, 0, EmptyMap)

\* loadSystemEnv: the variables of the environment whose name matches one of
\* the expected patterns (matched: the names the patterns match).
loadSystemEnv(environ, matched) ==
    [k \in (DOMAIN environ) \cap matched |-> environ[k]]

\* loadProfileConfig(profile): the content of the configuration files of
\* the profile ("" is the default application file) at the config locations.
loadProfileConfig(files, profile) ==
    IF profile \in DOMAIN files THEN files[profile] ELSE EmptyMap

\* conf.Priority(a, b): a priority list, highest priority first. A layer is
\* referred to by the name of the variable of prepare() that holds it.
Priority(a, b) == <<a, b>>

\* p.InsertBefore(layer, before): layer is put right before `before`.
RECURSIVE InsertBefore(_, _, _)
InsertBefore(p, layer, before) ==
    IF p = <<>> THEN <<layer>>
    ELSE IF Head(p) = before THEN <<layer>> \o p
    ELSE <<Head(p)>> \o InsertBefore(Tail(p), layer, before)

\* p.Get(key): the value of the first layer of p that defines key.
\* layers: layer name -> content. The result is <<found, value>>.
RECURSIVE PriorityGet(_, _, _)
PriorityGet(p, layers, key) ==
    IF p = <<>> THEN <<FALSE, <<>>>>
    ELSE IF key \in DOMAIN layers[Head(p)] THEN <<TRUE, layers[Head(p)][key]>>
    ELSE PriorityGet(Tail(p), layers, key)

\* p.GetFirst(keys...): the value of the first of keys that p defines, nil
\* otherwise; cast.ToString(nil) is "".
RECURSIVE GetFirst(_, _, _)
GetFirst(p, layers, keys) ==
    IF keys = <<>> THEN <<>>
    ELSE LET r == PriorityGet(p, layers, Head(keys)) IN
         IF r[1] THEN r[2] ELSE GetFirst(p, layers, Tail(keys))

\* p.Fill(properties): every key some layer defines, with the value p.Get
\* gives for it.
Fill(p, layers) ==
    LET keys == UNION {DOMAIN layers[p[i]] : i \in DOMAIN p} IN
    [k \in keys |-> PriorityGet(p, layers, k)[2]]

----------------------------------------------------------------------------
(* The steps of Run after prepare (app.go: start, Run, close): the loops   *)
(* over the hooks, the runners and the listeners, one entry at a time.     *)

\* start() with the runners before AutoWireBeans.
Phases_runnersFirst ==
    <<"afterPrepare", "runners", "autowire", "onStart", "wait", "close", "returned">>

\* The phases of Run after prepare, in program order.
Phases == <<"afterPrepare", "autowire", "runners", "onStart", "wait", "close", "returned">>

\* The entries of the loop of a phase (1 for a single statement).
Count(phase) ==
    CASE phase = "afterPrepare" -> NumHooks
      [] phase = "runners"      -> NumRunners
      [] phase = "onStart"      -> NumEvents
      [] phase = "close"        -> NumEvents
      [] OTHER                  -> 1

\* The phase control is in when it reaches the i-th phase: a loop over an
\* empty list is passed at once.
RECURSIVE Enter(_)
Enter(i) ==
    IF i >= Len(Phases) \/ Count(Phases[i]) > 0 THEN Phases[i] ELSE Enter(i + 1)

PhaseIndex(phase) == CHOOSE i \in DOMAIN Phases : Phases[i] = phase

\* Control after one more entry of the loop of `phase`, n entries done.
After(phase, n) ==
    IF n + 1 < Count(phase) THEN <<phase, n + 1>>
    ELSE <<Enter(PhaseIndex(phase) + 1), 0>>

----------------------------------------------------------------------------
(* Application.resolveProperty and Application.prepare.                    *)

RefPrefix == <<"$", "{">>

\* resolveProperty with the reference looked up but not resolved in turn.
resolveProperty_oneLevel(conf, key, value, depth) ==
    IF HasPrefix(value, RefPrefix) /\ Len(value) >= 3
    THEN LET refKey == Slice(value, 2, Len(value) - 1) IN
         IF refKey \notin DOMAIN conf
         THEN [conf |-> conf, val |-> value, err |-> NotConfig(refKey)]
         ELSE [conf |-> MapSet(conf, key, conf[refKey]),
               val  |-> conf[refKey],
               err  |-> NoErr]
    ELSE [conf |-> conf, val |-> value, err |-> NoErr]

\* resolveProperty with a missing reference left as it is.
resolveProperty_keepMissing(conf, key, value, depth) ==
    IF HasPrefix(value, RefPrefix) /\ Len(value) >= 3
          /\ Slice(value, 2, Len(value) - 1) \in DOMAIN conf
          /\ conf[Slice(value, 2, Len(value) - 1)] # value
    THEN LET refKey == Slice(value, 2, Len(value) - 1) IN
         [conf |-> MapSet(conf, key, conf[refKey]),
          val  |-> conf[refKey],
          err  |-> NoErr]
    ELSE [conf |-> conf, val |-> value, err |-> NoErr]

\* resolveProperty(conf, key, value), with `depth` the stack left. The
\* result is the returned value, the map conf as the call leaves it, and the
\* panic it ended with, if any.
RECURSIVE resolveProperty(_, _, _, _)
resolveProperty(conf, key, value, depth) ==
    IF HasPrefix(value, RefPrefix)
    THEN IF Len(value) < 3
         THEN [conf |-> conf, val |-> value, err |-> SliceBounds]
         ELSE LET refKey == Slice(value, 2, Len(value) - 1) IN
              IF refKey \notin DOMAIN conf
              THEN [conf |-> conf, val |-> value, err |-> NotConfig(refKey)]
              ELSE IF depth = 0
              THEN [conf |-> conf, val |-> value, err |-> StackOverflow]
              ELSE LET r == resolveProperty(conf, refKey, conf[refKey], depth - 1) IN
                   IF r.err # NoErr THEN r
                   ELSE [conf |-> MapSet(r.conf, key, r.val),
                         val  |-> r.val,
                         err  |-> NoErr]
    ELSE [conf |-> conf, val |-> value, err |-> NoErr]
\* the loop of prepare over the map `properties`, visiting the keys in
\* `order`: st.conf is the map, st.props the context's properties, st.err
\* the panic that ended the loop, if any.
RECURSIVE rangeProperties(_, _)
rangeProperties(order, st) ==
    IF order = <<>> \/ st.err # NoErr THEN st
    ELSE LET key == Head(order)
             r == resolveProperty(st.conf, key, st.conf[key], StackDepth)
         IN  IF r.err # NoErr
             THEN [st EXCEPT !.err = r.err]
             ELSE rangeProperties(Tail(order),
                      [conf  |-> r.conf,
                       props |-> MapSet(st.props, key, r.val),
                       err   |-> NoErr])

SpringProfile == <<"s","p","r","i","n","g",".","p","r","o","f","i","l","e">>
SPRING_PROFILE == <<"S","P","R","I","N","G","_","P","R","O","F","I","L","E">>

\* prepareBase with the command line put below the environment.
prepareBase_cmdBelowEnv ==
    LET p1 == Priority("apiConfig", "appConfig")
        p2 == InsertBefore(p1, "sysEnv", "appConfig")
    IN  InsertBefore(p2, "cmdArgs", "appConfig")

\* prepare: the priority list before the profile is known
\* (code-set > command line > environment > default file).
prepareBase ==
    LET p1 == Priority("apiConfig", "appConfig")
        p2 == InsertBefore(p1, "sysEnv", "appConfig")
    IN  InsertBefore(p2, "cmdArgs", "sysEnv")

\* prepare: the profile, the context's own or the first of spring.profile,
\* SPRING_PROFILE that the layers loaded so far define.
prepareProfile(p, layers) ==
    IF appProfile # <<>> THEN appProfile
    ELSE GetFirst(p, layers, <<SpringProfile, SPRING_PROFILE>>)

\* prepare: the priority list once the profile's layer is in.
preparePriority(p, profile) ==
    IF profile # <<>> THEN InsertBefore(p, "profileConfig", "appConfig") ELSE p

\* The layers prepare loads, by the name of the local variable holding them.
prepareLayers(profile) ==
    [apiConfig     |-> appProps,
     appConfig     |-> loadProfileConfig(configFiles, <<>>),
     sysEnv        |-> loadSystemEnv(osEnviron, expectSys),
     cmdArgs       |-> loadCmdArgs(osArgs),
     profileConfig |-> IF profile # <<>>
                       THEN loadProfileConfig(configFiles, profile)
                       ELSE EmptyMap]

\* Application.prepare(), whole. The order of the final range over the map
\* is any order.
prepare ==
    /\ crash = NoErr
    /\ mainPc = "prepare"
    /\ prepPc = "new"
    /\ \E profile \in {prepareProfile(prepareBase, prepareLayers(<<>>))} :
       \E p \in {preparePriority(prepareBase, profile)} :
       \E filled \in {Fill(p, prepareLayers(profile))} :
       \E order \in Orders(DOMAIN filled) :
       \E st \in {rangeProperties(order,
                      [conf |-> filled, props |-> appProps, err |-> NoErr])} :
          /\ apiConfig' = appProps
          /\ priority' = p
          /\ appProfile' = profile
          /\ properties' = st.conf
          /\ appProps' = st.props
          /\ prepErr' = st.err
          /\ prepPc' = IF st.err = NoErr THEN "done" ELSE "panic"
          /\ crash' = st.err
          /\ mainPc' = IF st.err = NoErr THEN Enter(1) ELSE mainPc
          /\ events' = IF st.err = NoErr THEN Append(events, <<"prepare", 1>>)
                       ELSE events
    /\ idx' = 0
    /\ UNCHANGED <<osArgs, osEnviron, expectSys, configFiles>>
    /\ UNCHANGED argVars
    /\ UNCHANGED <<exitChan, tpc, calls, shutdownBy, overlapped, closeCount,
                   autowired, started, stopped, invokeLog>>
    /\ UNCHANGED closedEarly
    /\ UNCHANGED <<optVars, beanVars>>

----------------------------------------------------------------------------
(* Inputs of prepare.                                                      *)

Kx == <<"x">>
Ky == <<"y">>
Kz == <<"z">>
V7 == <<"7">>
V8 == <<"8">>
RefX == <<"$", "{", "x", "}">>                       \* "${x}"
RefY == <<"$", "{", "y", "}">>                       \* "${y}"
RefZ == <<"$", "{", "z", "}">>                       \* "${z}"
RefYDefault == <<"$", "{", "y", ":", "=", "7", "}">> \* "${y:=7}"
ProfileT == <<"t">>
Prog == <<"a", "p", "p">>

\* The maps prepare reads: the code-set properties, the environment, the
\* default file and the file of profile "t".
InputMaps == {"code", "environ", "file", "profileFile"}

\* Every assignment of values to at most n of the cells.
PartialMaps(cells, values, n) ==
    UNION {[c -> values] : c \in {d \in SUBSET cells : Cardinality(d) <= n}}

\* The map named m of the assignment a.
MapOf(a, m) ==
    [k \in {c[2] : c \in {d \in DOMAIN a : d[1] = m}} |-> a[<<m, k>>]]

CmdLines ==
    { <<Prog>>,
      <<Prog, <<"e">>, <<"-", "x">>, V7>>,
      <<Prog, <<"-", "x">>, V8, <<"-", "y">>>>,
      <<Prog, Dash \o SpringProfile, ProfileT>> }

\* The context's own profile, with the names of the environment that the
\* expected patterns match.
ProfileAndMatched == { <<<<>>, {Kx, Ky}>>, <<ProfileT, {Kx}>> }

ConfInit(a, args, profile, matched) ==
    /\ appProps = MapOf(a, "code")
    /\ osEnviron = MapOf(a, "environ")
    /\ configFiles = [f \in {<<>>, ProfileT} |->
                         IF f = <<>> THEN MapOf(a, "file") ELSE MapOf(a, "profileFile")]
    /\ osArgs = args
    /\ appProfile = profile
    /\ expectSys = matched
    /\ prepPc = "new"
    /\ prepErr = NoErr
    /\ apiConfig = EmptyMap
    /\ priority = <<>>
    /\ properties = EmptyMap
    /\ ArgIdle

\* prepare, as start() calls it.
ConfInitPrepare(a, args, profile, matched) ==
    /\ ConfInit(a, args, profile, matched)
    /\ AppNew("prepare")
    /\ OptIdle /\ BeansIdle

\* Layering: two keys defined in any of the layers.
InitLayers ==
    \E a \in PartialMaps(InputMaps \X {Kx, Ky}, {V7, V8, RefY}, MaxEntries) :
    \E args \in CmdLines, pm \in ProfileAndMatched :
        ConfInitPrepare(a, args, pm[1], pm[2])

\* References: three keys of the default file, plain or referring.
InitRefs ==
    \E a \in PartialMaps({"file"} \X {Kx, Ky, Kz},
                         {V7, V8, RefX, RefY, RefZ, RefYDefault}, MaxEntries) :
        ConfInitPrepare(a, <<Prog>>, <<>>, {})

InitConf == InitLayers \/ InitRefs

NextConf == prepare

SpecConf == InitConf /\ [][NextConf]_vars
----------------------------------------------------------------------------
(* What the configuration claims speak of, stated from the inputs.         *)

\* The documented order of the layers, highest priority first.
DocumentedOrder == <<"apiConfig", "cmdArgs", "sysEnv", "profileConfig", "appConfig">>

\* The layers as loaded, once prepare has run (appProfile is then the
\* profile in force, apiConfig the code-set properties).
LoadedLayer(name) ==
    CASE name = "apiConfig"     -> apiConfig
      [] name = "cmdArgs"       -> loadCmdArgs(osArgs)
      [] name = "sysEnv"        -> loadSystemEnv(osEnviron, expectSys)
      [] name = "profileConfig" -> IF appProfile # <<>> /\ appProfile \in DOMAIN configFiles
                                   THEN configFiles[appProfile] ELSE EmptyMap
      [] name = "appConfig"     -> configFiles[<<>>]

LayerKeys == UNION {DOMAIN LoadedLayer(DocumentedOrder[i]) : i \in DOMAIN DocumentedOrder}

\* The highest layer, in the documented order, that defines k.
TopLayer(k) ==
    LET i == CHOOSE i \in DOMAIN DocumentedOrder :
                 /\ k \in DOMAIN LoadedLayer(DocumentedOrder[i])
                 /\ \A j \in 1..(i - 1) : k \notin DOMAIN LoadedLayer(DocumentedOrder[j])
    IN  DocumentedOrder[i]

TopValue(k) == LoadedLayer(TopLayer(k))[k]

\* The layers that define k.
LayersOf(k) == {i \in DOMAIN DocumentedOrder : k \in DOMAIN LoadedLayer(DocumentedOrder[i])}

IsRef(v) == Len(v) >= 2 /\ v[1] = "$" /\ v[2] = "{"

\* "${k}": a required reference, to the key k.
IsRequiredRef(v) ==
    /\ IsRef(v) /\ Len(v) >= 4 /\ v[Len(v)] = "}"
    /\ \A i \in 3..(Len(v) - 1) : v[i] \notin {":", "=", "$", "{", "}"}

RefTarget(v) == [i \in 1..(Len(v) - 3) |-> v[i + 2]]

\* "${k:=d}": a reference with a default. <<k, d>> are its key and default.
IsDefaultRef(v) ==
    /\ IsRef(v) /\ v[Len(v)] = "}"
    /\ \E i \in 4..(Len(v) - 2) : v[i] = ":" /\ v[i + 1] = "="

DefaultRefParts(v) ==
    LET i == CHOOSE i \in 4..(Len(v) - 2) : v[i] = ":" /\ v[i + 1] = "=" IN
    << [j \in 1..(i - 3) |-> v[j + 2]], [j \in 1..(Len(v) - i - 2) |-> v[j + i + 1]] >>

\* A key whose value requires a key that no layer defines.
Dangling(k) ==
    /\ k \in LayerKeys
    /\ IsRequiredRef(TopValue(k))
    /\ RefTarget(TopValue(k)) \notin LayerKeys

\* The value at the end of the chain of required references from k, n steps
\* at most; <<>> when the chain does not end in a plain value in n steps.
RECURSIVE ChainEnd(_, _)
ChainEnd(k, n) ==
    IF k \notin LayerKeys THEN <<>>
    ELSE IF ~IsRef(TopValue(k)) THEN TopValue(k)
    ELSE IF n = 0 \/ ~IsRequiredRef(TopValue(k)) THEN <<>>
    ELSE ChainEnd(RefTarget(TopValue(k)), n - 1)

\* k starts a chain of required references that ends in a plain value.
GoodChain(k) == ChainEnd(k, Cardinality(LayerKeys)) # <<>>

\* k is on a cycle of required references.
RECURSIVE Reaches(_, _, _)
Reaches(k, target, n) ==
    /\ k \in LayerKeys
    /\ IsRequiredRef(TopValue(k))
    /\ \/ RefTarget(TopValue(k)) = target
       \/ n > 0 /\ Reaches(RefTarget(TopValue(k)), target, n - 1)

Cyclic == \E k \in LayerKeys : Reaches(k, k, Cardinality(LayerKeys))

----------------------------------------------------------------------------
(* C5. After prepare, every key that some layer defines is in the          *)
(* application context with the value of the highest layer that defines    *)
(* it, in the order code-set > command line > environment > profile file > *)
(* default file: that value itself when it is plain, and the plain value   *)
(* its references lead to, through the highest layers again, when it is a  *)
(* reference. No lower layer overrides a higher one.                       *)
C5_LayerPrecedence ==
    prepPc = "done" =>
        /\ LayerKeys \subseteq DOMAIN appProps
        /\ \A k \in LayerKeys :
               /\ ~IsRef(TopValue(k)) => appProps[k] = TopValue(k)
               /\ IsRequiredRef(TopValue(k)) =>
                      appProps[k] = ChainEnd(k, Cardinality(LayerKeys))

\* prepare has run over a key that the command line, the environment and a
\* file define with different values, and the command line's value won.
C5_Witness ==
    /\ prepPc = "done"
    /\ \E k \in LayerKeys :
          /\ TopLayer(k) = "cmdArgs"
          /\ Cardinality(LayersOf(k)) >= 3
          /\ k \in DOMAIN LoadedLayer("sysEnv")
          /\ LoadedLayer("sysEnv")[k] # TopValue(k)
          /\ ~IsRef(TopValue(k))
          /\ appProps[k] = TopValue(k)

----------------------------------------------------------------------------
(* C6. A property x = "${y:=7}", all other properties plain: prepare       *)
(* completes, and x is 7 when y is not defined, y's value when it is.      *)
C6_DefaultReference ==
    ( /\ prepPc # "new"
      /\ Kx \in LayerKeys
      /\ TopValue(Kx) = RefYDefault
      /\ \A k \in LayerKeys \ {Kx} : ~IsRef(TopValue(k)) )
    => /\ prepPc = "done"
       /\ appProps[Kx] = IF Ky \in LayerKeys THEN TopValue(Ky)
                         ELSE DefaultRefParts(RefYDefault)[2]

----------------------------------------------------------------------------
(* C7. A property that requires, directly or through a chain, a key that   *)
(* no layer defines makes prepare panic, in every order of the map, with   *)
(* "property not config" naming a key that a property requires and no      *)
(* layer defines; prepare never completes with a required reference left   *)
(* as a value.                                                             *)
C7_MissingReferenceNamed ==
    /\ (prepPc # "new" /\ \E k \in LayerKeys : Dangling(k)) =>
           /\ prepPc = "panic"
           /\ prepErr.kind = "property not config"
           /\ \E k \in LayerKeys : Dangling(k) /\ prepErr.arg = RefTarget(TopValue(k))
    /\ prepPc = "done" => \A k \in LayerKeys : ~IsRequiredRef(appProps[k])

(* C7, what holds of the code: such a property makes prepare panic in      *)
(* every order and never complete; a "property not config" panic names a   *)
(* key that no layer defines, taken from a reference of the map by         *)
(* dropping "${" and the last character; and it names a key that a         *)
(* property requires whenever the map holds no cycle of references and no  *)
(* reference with a default.                                               *)
C7_MissingReferenceFatal ==
    /\ (prepPc # "new" /\ \E k \in LayerKeys : Dangling(k)) =>
           /\ prepPc = "panic"
           /\ (~Cyclic /\ \A k \in LayerKeys : ~IsDefaultRef(TopValue(k))) =>
                  /\ prepErr.kind = "property not config"
                  /\ \E k \in LayerKeys :
                         Dangling(k) /\ prepErr.arg = RefTarget(TopValue(k))
    /\ (prepPc = "panic" /\ prepErr.kind = "property not config") =>
           /\ prepErr.arg \notin LayerKeys
           /\ \E k \in LayerKeys : IsRef(TopValue(k))
                 /\ TopValue(k) = RefPrefix \o prepErr.arg \o <<"}">>
    /\ prepPc = "done" => \A k \in LayerKeys : ~IsRequiredRef(appProps[k])

\* prepare has panicked on x = "${y}", y = "${z}", z not defined.
C7_Witness ==
    /\ prepPc = "panic"
    /\ prepErr = NotConfig(Kz)
    /\ LayerKeys = {Kx, Ky}
    /\ TopValue(Kx) = RefY
    /\ TopValue(Ky) = RefZ

----------------------------------------------------------------------------
(* C8. After prepare, every key of a chain of required references that     *)
(* ends in a plain value v holds v, in the context and in the merged map,  *)
(* whatever the order of the map; and prepare does complete when every     *)
(* key is plain or starts such a chain.                                    *)
C8_TransitiveResolution ==
    /\ prepPc = "done" =>
           \A k \in LayerKeys : GoodChain(k) =>
               /\ appProps[k] = ChainEnd(k, Cardinality(LayerKeys))
               /\ properties[k] = ChainEnd(k, Cardinality(LayerKeys))
    /\ (prepPc # "new" /\ \A k \in LayerKeys : GoodChain(k)) => prepPc = "done"

\* prepare has run over x = "${y}", y = "${z}", z = "7".
C8_Witness ==
    /\ prepPc = "done"
    /\ {Kx, Ky, Kz} \subseteq LayerKeys
    /\ TopValue(Kx) = RefY /\ TopValue(Ky) = RefZ /\ TopValue(Kz) = V7
    /\ appProps[Kx] = V7 /\ appProps[Ky] = V7 /\ appProps[Kz] = V7
----------------------------------------------------------------------------
(* bean.NewFnStringBindingArg and fnStringBindingArg.Get.                  *)

Colon == ":"

\* fmt.Errorf("tag:\"%s\" should have index", tag)
ShouldHaveIndex(tag) == [kind |-> "should have index", arg |-> tag]
\* fmt.Errorf("tag \"%s\" shouldn't have index", tag)
ShouldntHaveIndex(tag) == [kind |-> "shouldn't have index", arg |-> tag]
\* fmt.Errorf("indexed tag \"%s\" overflow", tag)
IndexedOverflow(tag) == [kind |-> "indexed tag overflow", arg |-> tag]
\* fmt.Errorf("index %d has %d tags", i, len(fnTags[i]))
IndexHasTags(tag) == [kind |-> "index has tags", arg |-> tag]
\* the Go runtime's panic for fnTags[i] with i out of range
IndexOutOfRange(tag) == [kind |-> "index out of range", arg |-> tag]

\* whether the tag starts with "N:", N an integer: the test of the code on
\* tags[0] and, in the loop without indexes, on every tag
hasIndex(tag) ==
    /\ Index(tag, Colon) > 0
    /\ Atoi(Slice(tag, 0, Index(tag, Colon)))[1]

\* The number of bound parameters: the receiver is not one.
boundNumIn(numIn, receiver) == IF receiver THEN numIn - 1 ELSE numIn

\* The loop over indexed tags, from the k-th tag (1-based): ft is fnTags (a
\* sequence; fnTags[i] of the code is ft[i + 1]).
RECURSIVE indexedLoop(_, _, _, _, _)
indexedLoop(tgs, k, ft, numIn, variadic) ==
    IF k > Len(tgs) THEN [err |-> NoErr, fnTags |-> ft]
    ELSE LET tag == tgs[k]
             index == Index(tag, Colon)
         IN  IF index <= 0 THEN [err |-> ShouldHaveIndex(tag), fnTags |-> ft]
             ELSE LET a == Atoi(Slice(tag, 0, index))
                      i == a[2]
                  IN  IF ~a[1] THEN [err |-> ShouldHaveIndex(tag), fnTags |-> ft]
                      ELSE IF i < 0 \/ i >= numIn
                      THEN [err |-> IndexedOverflow(tag), fnTags |-> ft]
                      ELSE LET ft2 == [ft EXCEPT ![i + 1] =
                                          Append(@, Slice(tag, index + 1, Len(tag)))]
                           IN  IF Len(ft2[i + 1]) > 1 /\ (~variadic \/ i < numIn - 1)
                               THEN [err |-> IndexHasTags(tag), fnTags |-> ft2]
                               ELSE indexedLoop(tgs, k + 1, ft2, numIn, variadic)

\* plainLoop without the test that a tag has no index.
RECURSIVE plainLoop_noIndexTest(_, _, _, _, _)
plainLoop_noIndexTest(tgs, k, ft, numIn, variadic) ==
    IF k > Len(tgs) THEN [err |-> NoErr, fnTags |-> ft]
    ELSE LET tag == tgs[k]
             i == k - 1
         IN  IF variadic /\ i >= numIn - 1
             THEN IF numIn - 1 < 0
                  THEN [err |-> IndexOutOfRange(tag), fnTags |-> ft]
                  ELSE plainLoop_noIndexTest(tgs, k + 1,
                           [ft EXCEPT ![numIn] = Append(@, tag)], numIn, variadic)
             ELSE IF i >= numIn
             THEN [err |-> IndexOutOfRange(tag), fnTags |-> ft]
             ELSE plainLoop_noIndexTest(tgs, k + 1,
                      [ft EXCEPT ![i + 1] = <<tag>>], numIn, variadic)

\* The loop over tags without index, from the k-th tag (1-based; the code's
\* i is k - 1). fnTags[i] = []string{tag} panics in the runtime when
\* i >= numIn, before the code's own overflow test is reached.
RECURSIVE plainLoop(_, _, _, _, _)
plainLoop(tgs, k, ft, numIn, variadic) ==
    IF k > Len(tgs) THEN [err |-> NoErr, fnTags |-> ft]
    ELSE LET tag == tgs[k]
             i == k - 1
         IN  IF hasIndex(tag) THEN [err |-> ShouldntHaveIndex(tag), fnTags |-> ft]
             ELSE IF variadic /\ i >= numIn - 1
             THEN IF numIn - 1 < 0
                  THEN [err |-> IndexOutOfRange(tag), fnTags |-> ft]
                  ELSE plainLoop(tgs, k + 1,
                                 [ft EXCEPT ![numIn] = Append(@, tag)], numIn, variadic)
             ELSE IF i >= numIn
             THEN [err |-> IndexOutOfRange(tag), fnTags |-> ft]
             ELSE plainLoop(tgs, k + 1, [ft EXCEPT ![i + 1] = <<tag>>], numIn, variadic)

\* NewFnStringBindingArg(fnType, withReceiver, tags): the fnTags built, or
\* the panic.
NewFnStringBindingArg(numInAll, variadic, receiver, tgs) ==
    LET numIn == boundNumIn(numInAll, receiver)
        ft0 == [i \in 1..numIn |-> <<>>]
    IN  IF Len(tgs) > 0
        THEN IF tgs[1] # <<>> /\ hasIndex(tgs[1])
             THEN indexedLoop(tgs, 1, ft0, numIn, variadic)
             ELSE plainLoop(tgs, 1, ft0, numIn, variadic)
        ELSE [err |-> NoErr, fnTags |-> ft0]

\* getArgValue(v, tag, ...) for v of the type fnType.In(in): the value bound
\* is known by the parameter it is for and the tag it is bound with.
getArgValue(in, tag) == [in |-> in, tag |-> tag]

\* getLoop binding one value for the variadic parameter too.
RECURSIVE getLoop_oneEach(_, _, _, _, _)
getLoop_oneEach(ft, k, numIn, variadic, receiver) ==
    IF k > Len(ft) THEN <<>>
    ELSE LET i == k - 1
             it == IF receiver THEN i + 1 ELSE i
         IN  <<getArgValue(it, IF Len(ft[k]) > 0 THEN ft[k][1] ELSE <<>>)>>
                 \o getLoop_oneEach(ft, k + 1, numIn, variadic, receiver)

\* fnStringBindingArg.Get: the loop over arg.fnTags from the k-th entry
\* (the code's i is k - 1).
RECURSIVE getLoop(_, _, _, _, _)
getLoop(ft, k, numIn, variadic, receiver) ==
    IF k > Len(ft) THEN <<>>
    ELSE LET i == k - 1
             it == IF receiver THEN i + 1 ELSE i
             here == IF variadic /\ i = numIn - 1
                     THEN [j \in 1..Len(ft[k]) |-> getArgValue(it, ft[k][j])]
                     ELSE <<getArgValue(it, IF Len(ft[k]) > 0 THEN ft[k][1] ELSE <<>>)>>
         IN  here \o getLoop(ft, k + 1, numIn, variadic, receiver)

Get(ft, numInAll, variadic, receiver) ==
    getLoop(ft, 1, boundNumIn(numInAll, receiver), variadic, receiver)

\* ---- the binder as a state machine ----

NewArg ==
    /\ argPc = "new"
    /\ LET r == NewFnStringBindingArg(fnNumIn, fnVariadic, withReceiver, tags) IN
          /\ argErr' = r.err
          /\ fnTags' = IF r.err = NoErr THEN r.fnTags ELSE <<>>
          /\ argPc' = IF r.err = NoErr THEN "built" ELSE "panic"
    /\ UNCHANGED <<fnNumIn, fnVariadic, withReceiver, tags, result>>
    /\ UNCHANGED <<confVars, appVars>>
    /\ UNCHANGED <<optVars, beanVars>>

GetArgs ==
    /\ argPc = "built"
    /\ result' = Get(fnTags, fnNumIn, fnVariadic, withReceiver)
    /\ argPc' = "got"
    /\ UNCHANGED <<fnNumIn, fnVariadic, withReceiver, tags, argErr, fnTags>>
    /\ UNCHANGED <<confVars, appVars>>
    /\ UNCHANGED <<optVars, beanVars>>

\* Inputs of the binder.
TagUniverse ==
    { <<>>, <<"a">>, <<"b">>,
      <<"0", ":", "a">>, <<"1", ":", "b">>, <<"1", ":", "c">>,
      <<"x", ":", "a">>, <<"-", "1", ":", "a">>,
      <<"$", "{", "k", ":", "=", "1", "}">> }

TagLists == UNION {[1..n -> TagUniverse] : n \in 0..MaxTags}

\* The function types: a receiver and a variadic parameter are parameters.
FnShapes ==
    {sh \in [numIn : 0..(MaxParams + 1), variadic : BOOLEAN, receiver : BOOLEAN] :
        /\ boundNumIn(sh.numIn, sh.receiver) \in 0..MaxParams
        /\ sh.variadic => boundNumIn(sh.numIn, sh.receiver) >= 1}

InitArg ==
    /\ \E sh \in FnShapes :
          /\ fnNumIn = sh.numIn
          /\ fnVariadic = sh.variadic
          /\ withReceiver = sh.receiver
    /\ tags \in TagLists
    /\ argPc = "new"
    /\ argErr = NoErr
    /\ fnTags = <<>>
    /\ result = <<>>
    /\ ConfIdle
    /\ AppNew("idle")
    /\ OptIdle /\ BeansIdle

NextArg == NewArg \/ GetArgs

SpecArg == InitArg /\ [][NextArg]_vars
----------------------------------------------------------------------------
(* What the binding claims speak of, stated from the tag list.             *)

\* The tag has the form "N:tag".
Indexed(tag) == hasIndex(tag)
TagIndex(tag) == Atoi(Slice(tag, 0, Index(tag, Colon)))[2]
TagBody(tag) == Slice(tag, Index(tag, Colon) + 1, Len(tag))

\* The list mixes tags with and without index.
Mixed(tgs) == \E i, j \in DOMAIN tgs : Indexed(tgs[i]) /\ ~Indexed(tgs[j])

\* The first tag of the list whose form is not that of the first tag.
FirstOther(tgs) ==
    CHOOSE m \in DOMAIN tgs :
        /\ Indexed(tgs[m]) # Indexed(tgs[1])
        /\ \A j \in 1..(m - 1) : Indexed(tgs[j]) = Indexed(tgs[1])

\* The error of mixing, for a list whose first tag has or has not an index.
MixingError(tgs) ==
    IF Indexed(tgs[1]) THEN ShouldHaveIndex(tgs[FirstOther(tgs)])
    ELSE ShouldntHaveIndex(tgs[FirstOther(tgs)])

\* The number of bound parameters that are not variadic.
FixedParams ==
    boundNumIn(fnNumIn, withReceiver) - (IF fnVariadic THEN 1 ELSE 0)

\* fnType.In of the j-th bound parameter (0-based).
InOf(j) == IF withReceiver THEN j + 1 ELSE j

\* The tag addressed to the j-th bound parameter (0-based): by its index when
\* the tags have indexes, by position otherwise; the empty tag when none is.
TagFor(j) ==
    IF tags # <<>> /\ Indexed(tags[1])
    THEN IF \E k \in DOMAIN tags : TagIndex(tags[k]) = j
         THEN TagBody(tags[CHOOSE k \in DOMAIN tags : TagIndex(tags[k]) = j])
         ELSE <<>>
    ELSE IF j < Len(tags) THEN tags[j + 1] ELSE <<>>

\* The tags supplied for the variadic parameter, in the order supplied.
VariadicTags ==
    LET last == boundNumIn(fnNumIn, withReceiver) - 1
        ForLast(t) == TagIndex(t) = last
        bodies(sq) == [k \in DOMAIN sq |-> TagBody(sq[k])]
    IN  IF ~fnVariadic THEN <<>>
        ELSE IF tags # <<>> /\ Indexed(tags[1])
        THEN bodies(SelectSeq(tags, ForLast))
        ELSE SubSeq(tags, last + 1, Len(tags))

----------------------------------------------------------------------------
(* C9 as stated. A list that mixes tags with and without index makes       *)
(* NewFnStringBindingArg panic, with "should have index" when the first    *)
(* tag has an index and with "shouldn't have index" when it has none.      *)
C9_MixedTagsMessage ==
    (argPc # "new" /\ Len(tags) >= 2 /\ Mixed(tags)) =>
        /\ argPc = "panic"
        /\ argErr.kind = IF Indexed(tags[1]) THEN "should have index"
                         ELSE "shouldn't have index"

(* C9, amended. A list that mixes tags with and without index always makes *)
(* NewFnStringBindingArg panic: never is a mixed list accepted. The panic  *)
(* is "should have index" (first tag indexed) or "shouldn't have index"    *)
(* (first tag not indexed) for the first tag of the other form, unless the *)
(* tags before it already make the constructor panic (an index out of      *)
(* range, an index given twice, more tags than parameters): then it is     *)
(* that panic.                                                             *)
C9_MixedTagsFatal ==
    (argPc # "new" /\ Len(tags) >= 2 /\ Mixed(tags)) =>
        LET before == SubSeq(tags, 1, FirstOther(tags) - 1)
            early == NewFnStringBindingArg(fnNumIn, fnVariadic, withReceiver, before)
        IN  /\ argPc = "panic"
            /\ early.err = NoErr => argErr = MixingError(tags)
            /\ early.err # NoErr =>
                   /\ argErr = early.err
                   /\ argErr.kind \in {"indexed tag overflow", "index has tags",
                                       "index out of range"}

\* The constructor has panicked on the third tag of a list whose first two
\* tags have an index and whose third has none.
C9_Witness ==
    /\ argPc = "panic"
    /\ Len(tags) = 3
    /\ Indexed(tags[1]) /\ Indexed(tags[2]) /\ ~Indexed(tags[3])
    /\ argErr = ShouldHaveIndex(tags[3])

----------------------------------------------------------------------------
(* C10. Get returns, in the order of declaration, one value for each       *)
(* parameter that is neither the receiver nor variadic, bound with the tag *)
(* addressed to it (by index or by position; the empty tag when none is),  *)
(* then one value for each tag supplied for the variadic parameter, in the *)
(* order supplied.                                                         *)
C10_GetInDeclarationOrder ==
    argPc = "got" =>
        /\ Len(result) = FixedParams + Len(VariadicTags)
        /\ \A j \in 0..(FixedParams - 1) :
               result[j + 1] = [in |-> InOf(j), tag |-> TagFor(j)]
        /\ \A e \in DOMAIN VariadicTags :
               result[FixedParams + e] =
                   [in |-> InOf(FixedParams), tag |-> VariadicTags[e]]

\* Get has returned for indexed tags given out of order, two of them for
\* the variadic parameter: "1:b", "0:a", "1:c".
C10_Witness ==
    /\ argPc = "got"
    /\ fnVariadic
    /\ Len(tags) = 3
    /\ Indexed(tags[1]) /\ TagIndex(tags[1]) = 1 /\ TagIndex(tags[2]) = 0
    /\ Len(result) = 3
    /\ result[1].tag = TagBody(tags[2])
    /\ result[2].tag = TagBody(tags[1])
    /\ result[3].tag = TagBody(tags[3])
----------------------------------------------------------------------------
(* Application.Run, start, close and ShutDown, goroutine by goroutine.     *)

\* the Go runtime's panic for close() of a closed channel
CloseOfClosed == [kind |-> "close of closed channel", arg |-> <<>>]

\* the panic of Invoke on a context that is not wired
ShouldCallAfter == [kind |-> "should call after AutoWireBeans", arg |-> <<>>]

Alive == crash = NoErr

\* Run is called: the signal listener goroutine is started, then start()
\* begins (the banner is printed and prepare is next).
Run ==
    /\ Alive
    /\ mainPc = "new"
    /\ mainPc' = "prepare"
    /\ tpc' = [tpc EXCEPT !["sig"] = "waiting"]
    /\ UNCHANGED <<idx, exitChan, calls, shutdownBy, overlapped, closeCount, crash, autowired,
                   started, stopped, invokeLog>>
    /\ UNCHANGED <<confVars, argVars>>
    /\ UNCHANGED <<events, closedEarly>>
    /\ UNCHANGED <<optVars, beanVars>>

\* start(): one AfterPrepare hook is called.
AfterPrepare ==
    /\ Alive
    /\ mainPc = "afterPrepare"
    /\ mainPc' = After(mainPc, idx)[1]
    /\ idx' = After(mainPc, idx)[2]
    /\ UNCHANGED <<exitChan, tpc, calls, shutdownBy, overlapped, closeCount, crash, autowired,
                   started, stopped, invokeLog>>
    /\ UNCHANGED <<confVars, argVars>>
    /\ events' = Append(events, <<"AfterPrepare", idx + 1>>)
    /\ UNCHANGED closedEarly
    /\ UNCHANGED <<optVars, beanVars>>

\* start(): the context is registered as a bean and AutoWireBeans runs; it
\* fills app.Events and app.Runners.
AutoWireBeans ==
    /\ Alive
    /\ mainPc = "autowire"
    /\ autowired' = TRUE
    /\ mainPc' = After(mainPc, idx)[1]
    /\ idx' = After(mainPc, idx)[2]
    /\ UNCHANGED <<exitChan, tpc, calls, shutdownBy, overlapped, closeCount, crash,
                   started, stopped, invokeLog>>
    /\ UNCHANGED <<confVars, argVars>>
    /\ events' = Append(events, <<"AutoWireBeans", 1>>)
    /\ UNCHANGED closedEarly
    /\ UNCHANGED <<optVars, beanVars>>

\* start(): one CommandLineRunner runs.
RunRunner ==
    /\ Alive
    /\ mainPc = "runners"
    /\ mainPc' = After(mainPc, idx)[1]
    /\ idx' = After(mainPc, idx)[2]
    /\ UNCHANGED <<exitChan, tpc, calls, shutdownBy, overlapped, closeCount, crash, autowired,
                   started, stopped, invokeLog>>
    /\ UNCHANGED <<confVars, argVars>>
    /\ events' = Append(events, <<"Run", idx + 1>>)
    /\ UNCHANGED closedEarly
    /\ UNCHANGED <<optVars, beanVars>>

\* start(): one listener is told the application has started.
OnStartApplication ==
    /\ Alive
    /\ mainPc = "onStart"
    /\ started' = [started EXCEPT ![idx + 1] = @ + 1]
    /\ mainPc' = After(mainPc, idx)[1]
    /\ idx' = After(mainPc, idx)[2]
    /\ UNCHANGED <<exitChan, tpc, calls, shutdownBy, overlapped, closeCount, crash, autowired,
                   stopped, invokeLog>>
    /\ UNCHANGED <<confVars, argVars>>
    /\ events' = Append(events, <<"OnStartApplication", idx + 1>>)
    /\ UNCHANGED closedEarly
    /\ UNCHANGED <<optVars, beanVars>>

\* start() has been called and has not returned.
InStart(pc) == pc \in {"prepare", "afterPrepare", "autowire", "runners", "onStart"}

\* Run: <-app.exitChan returns once the channel is closed.
canReceive(ch) == ch = "closed"

WaitExit ==
    /\ Alive
    /\ mainPc = "wait"
    /\ canReceive(exitChan)
    /\ mainPc' = After(mainPc, idx)[1]
    /\ idx' = After(mainPc, idx)[2]
    /\ UNCHANGED <<exitChan, tpc, calls, shutdownBy, overlapped, closeCount, crash, autowired,
                   started, stopped, invokeLog>>
    /\ UNCHANGED <<confVars, argVars>>
    /\ UNCHANGED <<events, closedEarly>>
    /\ UNCHANGED <<optVars, beanVars>>

\* close(): within app.Close, one listener is told the application stops;
\* after the last one Run returns.
OnStopApplication ==
    /\ Alive
    /\ mainPc = "close"
    /\ stopped' = [stopped EXCEPT ![idx + 1] = @ + 1]
    /\ mainPc' = After(mainPc, idx)[1]
    /\ idx' = After(mainPc, idx)[2]
    /\ UNCHANGED <<exitChan, tpc, calls, shutdownBy, overlapped, closeCount, crash, autowired,
                   started, invokeLog>>
    /\ UNCHANGED <<confVars, argVars>>
    /\ events' = Append(events, <<"OnStopApplication", idx + 1>>)
    /\ UNCHANGED closedEarly
    /\ UNCHANGED <<optVars, beanVars>>

\* The signal listener: <-sig returns, a signal has come; ShutDown is next.
Signal ==
    /\ Alive
    /\ tpc["sig"] = "waiting"
    /\ tpc' = [tpc EXCEPT !["sig"] = "idle"]
    /\ UNCHANGED <<mainPc, idx, exitChan, calls, shutdownBy, overlapped, closeCount, crash,
                   autowired, started, stopped, invokeLog>>
    /\ UNCHANGED <<confVars, argVars>>
    /\ UNCHANGED <<events, closedEarly>>
    /\ UNCHANGED <<optVars, beanVars>>

\* The ShutDown calls a goroutine makes: the signal listener one.
Budget(t) == IF t = "sig" THEN 1 ELSE MaxCalls

\* ShutDown with the default branch taken whatever the channel.
selectDefault_always(ch) == TRUE

\* ShutDown's select: the default branch is taken when <-app.exitChan
\* cannot proceed, that is when the channel is not closed.
selectDefault(ch) == ch # "closed"

\* ShutDown, the select: the goroutine t finds the channel closed and
\* returns, or takes the default branch.
ShutDownSelect(t) ==
    /\ Alive
    /\ tpc[t] = "idle"
    /\ calls[t] < Budget(t)
    /\ shutdownBy' = shutdownBy \cup {t}
    /\ overlapped' = (overlapped \/ \E u \in Threads \ {t} : tpc[u] = "close")
    /\ IF selectDefault(exitChan)
       THEN /\ tpc' = [tpc EXCEPT ![t] = "close"]
            /\ calls' = calls
       ELSE /\ tpc' = tpc
            /\ calls' = [calls EXCEPT ![t] = @ + 1]
    /\ UNCHANGED <<mainPc, idx, exitChan, closeCount, crash, autowired,
                   started, stopped, invokeLog>>
    /\ UNCHANGED <<confVars, argVars>>
    /\ UNCHANGED <<events, closedEarly>>
    /\ UNCHANGED <<optVars, beanVars>>

\* ShutDown, the default branch: close(app.exitChan), which panics when the
\* channel is closed already.
ShutDownClose(t) ==
    /\ Alive
    /\ tpc[t] = "close"
    /\ closeCount' = closeCount + 1
    /\ IF exitChan = "open"
       THEN /\ exitChan' = "closed"
            /\ crash' = crash
            /\ tpc' = [tpc EXCEPT ![t] = "idle"]
            /\ calls' = [calls EXCEPT ![t] = @ + 1]
       ELSE /\ exitChan' = exitChan
            /\ crash' = CloseOfClosed
            /\ UNCHANGED <<tpc, calls>>
    /\ UNCHANGED <<mainPc, idx, shutdownBy, overlapped, autowired, started, stopped,
                   invokeLog>>
    /\ UNCHANGED <<confVars, argVars>>
    /\ closedEarly' = (closedEarly \/ (exitChan = "open" /\ InStart(mainPc)))
    /\ UNCHANGED events
    /\ UNCHANGED <<optVars, beanVars>>

\* The tags of the call in the test: func(i *int, version string) with
\* "1:${version}".
TestTags == << <<"1", ":", "$", "{", "v", "e", "r", "s", "i", "o", "n", "}">> >>

\* The tags Invoke is called with: the test's, and a list that does not
\* bind.
InvokeTags ==
    { TestTags,
      << <<"a">>, <<"0", ":", "a">> >> }

\* Invoke with no test of the context.
Invoke_noTest ==
    /\ Alive
    /\ Len(invokeLog) < MaxInvokes
    /\ \E tgs \in InvokeTags :
          LET r == NewFnStringBindingArg(2, FALSE, FALSE, tgs) IN
          invokeLog' = Append(invokeLog,
              [pre |-> autowired, tags |-> tgs, err |-> r.err,
               args |-> IF r.err = NoErr THEN Get(r.fnTags, 2, FALSE, FALSE) ELSE <<>>,
               called |-> r.err = NoErr])
    /\ UNCHANGED <<mainPc, idx, exitChan, tpc, calls, shutdownBy, overlapped, closeCount,
                   crash, autowired, started, stopped>>
    /\ UNCHANGED <<confVars, argVars>>
    /\ UNCHANGED <<events, closedEarly>>
    /\ UNCHANGED <<optVars, beanVars>>

\* ctx.Invoke(fn, tags...): panics when AutoWireBeans has not completed;
\* binds the arguments as a bean constructor's and calls fn otherwise. The
\* caller recovers from the panic (as the test does). An entry of the log
\* holds whether the context was wired, the tags, the panic, the arguments
\* bound and whether fn was called.
Invoke ==
    /\ Alive
    /\ Len(invokeLog) < MaxInvokes
    /\ \E tgs \in InvokeTags :
          IF ~autowired
          THEN invokeLog' = Append(invokeLog,
                   [pre |-> FALSE, tags |-> tgs, err |-> ShouldCallAfter,
                    args |-> <<>>, called |-> FALSE])
          ELSE LET r == NewFnStringBindingArg(2, FALSE, FALSE, tgs) IN
               invokeLog' = Append(invokeLog,
                   [pre |-> TRUE, tags |-> tgs, err |-> r.err,
                    args |-> IF r.err = NoErr THEN Get(r.fnTags, 2, FALSE, FALSE)
                             ELSE <<>>,
                    called |-> r.err = NoErr])
    /\ UNCHANGED <<mainPc, idx, exitChan, tpc, calls, shutdownBy, overlapped, closeCount,
                   crash, autowired, started, stopped>>
    /\ UNCHANGED <<confVars, argVars>>
    /\ UNCHANGED <<events, closedEarly>>
    /\ UNCHANGED <<optVars, beanVars>>

\* The application with one of a few configurations: none, a plain
\* property, a reference that resolves, and one that does not.
AppConfigs ==
    { EmptyMap,
      (Kx :> V7),
      (Kx :> RefY) @@ (Ky :> V8),
      (Kx :> RefY) }

InitApp ==
    /\ \E file \in AppConfigs :
          /\ configFiles = [f \in {<<>>} |-> file]
          /\ appProps = EmptyMap /\ appProfile = <<>> /\ osArgs = <<Prog>>
          /\ osEnviron = EmptyMap /\ expectSys = {}
          /\ prepPc = "new" /\ prepErr = NoErr /\ apiConfig = EmptyMap
          /\ priority = <<>> /\ properties = EmptyMap
    /\ ArgIdle
    /\ AppNew("new")
    /\ OptIdle /\ BeansIdle

MainStep ==
    \/ Run
    \/ prepare
    \/ AfterPrepare
    \/ AutoWireBeans
    \/ RunRunner
    \/ OnStartApplication
    \/ WaitExit
    \/ OnStopApplication

NextApp ==
    \/ MainStep
    \/ Signal
    \/ \E t \in Threads : ShutDownSelect(t)
    \/ \E t \in Threads : ShutDownClose(t)
    \/ Invoke

SpecApp == InitApp /\ [][NextApp]_vars

\* The Go scheduler runs every goroutine that can run: the goroutine of Run
\* goes on, and a ShutDown call that has begun completes. Nothing says that
\* a signal comes or that anyone calls ShutDown or Invoke.
FairSpecApp ==
    /\ SpecApp
    /\ WF_vars(MainStep)
    /\ \A t \in Threads : WF_vars(ShutDownClose(t))
    /\ WF_vars(ShutDownSelect("sig"))
----------------------------------------------------------------------------
(* The lifecycle claims.                                                   *)

\* a shutdown has been requested: a goroutine has called ShutDown, or the
\* termination signal has come to the listener
Requested == shutdownBy # {} \/ tpc["sig"] \notin {"none", "waiting"}

AllStoppedOnce == \A e \in Events : stopped[e] = 1

\* C1: ShutDown calls that follow one another (no two under way at once)
\* never panic: the second and later ones find the channel closed and do
\* nothing. Every listener's OnStopApplication runs at most once, and
\* exactly once by the time Run has returned.
C1_SequentialShutDown ==
    /\ ~overlapped => (crash # CloseOfClosed /\ closeCount <= 1)
    /\ \A e \in Events : stopped[e] <= 1
    /\ mainPc = "returned" => AllStoppedOnce

\* One goroutine has completed two ShutDown calls, no call overlapped
\* another, and Run has returned after one teardown.
C1_Witness ==
    /\ ~overlapped
    /\ \E t \in Callers : calls[t] >= 2
    /\ closeCount = 1
    /\ crash = NoErr
    /\ mainPc = "returned"
    /\ AllStoppedOnce

\* C2: however the ShutDown calls of the signal listener and of other
\* goroutines interleave, exitChan is closed at most once and no close of a
\* closed channel happens.
C2_CloseAtMostOnce ==
    /\ closeCount <= 1
    /\ crash # CloseOfClosed

\* C3: Run does not begin the teardown before a shutdown is requested;
\* when Run has returned every listener's OnStopApplication has run; and
\* once a shutdown is requested, Run returns (unless startup panicked).
C3_RunBlocksUntilShutDown ==
    /\ [](mainPc \in {"close", "returned"} => Requested)
    /\ [](mainPc = "returned" => AllStoppedOnce)
    /\ (Requested /\ mainPc # "new") ~> (mainPc = "returned" \/ prepPc = "panic")

\* What holds of Run: the same, but for the runs where a second close of
\* exitChan has killed the process.
C3_RunReturnsUnlessDoubleClose ==
    /\ [](mainPc \in {"close", "returned"} => Requested)
    /\ [](mainPc = "returned" => AllStoppedOnce)
    /\ (Requested /\ mainPc # "new")
          ~> (mainPc = "returned" \/ prepPc = "panic" \/ crash = CloseOfClosed)

\* C4: an Invoke made before AutoWireBeans has completed panics with
\* "should call after AutoWireBeans" and does not call the function; one
\* made after it never panics with that message, and with the tag
\* "1:${version}" it binds both arguments and calls the function.
C4_InvokeAfterAutoWireBeans ==
    \A i \in 1..Len(invokeLog) :
        LET inv == invokeLog[i] IN
        /\ ~inv.pre => (inv.err = ShouldCallAfter /\ ~inv.called)
        /\ inv.pre => inv.err # ShouldCallAfter
        /\ (inv.pre /\ inv.tags = TestTags) =>
              (inv.err = NoErr /\ inv.called /\ Len(inv.args) = 2)

\* The same Invoke made before AutoWireBeans, where it panicked, and again
\* after it, where it called the function.
C4_Witness ==
    /\ Len(invokeLog) = 2
    /\ invokeLog[1].tags = TestTags /\ invokeLog[2].tags = TestTags
    /\ ~invokeLog[1].pre /\ invokeLog[1].err = ShouldCallAfter
    /\ invokeLog[2].pre /\ invokeLog[2].called
----------------------------------------------------------------------------
(* C15. prepare terminates on every merged map: resolveProperty never      *)
(* recurses without end, and a map whose required references form a cycle  *)
(* ends prepare with a configuration error (a panic of resolveProperty's    *)
(* own), not with the stack exhausted.                                      *)
C15_CyclesEndInConfigError ==
    /\ prepPc # "new" => prepErr # StackOverflow
    /\ (prepPc # "new" /\ Cyclic) =>
           /\ prepPc = "panic"
           /\ prepErr.kind = "property not config"

\* What holds of the code: the stack is exhausted only on a cycle of
\* references, and a map with such a cycle never completes prepare.
C15_OverflowOnlyOnCycle ==
    /\ (prepPc # "new" /\ prepErr = StackOverflow) => Cyclic
    /\ (prepPc # "new" /\ Cyclic) => prepPc = "panic"
----------------------------------------------------------------------------
(* The order of the lifecycle events of one Run.                           *)

\* The position of an event in a Run: prepare, the AfterPrepare hooks,
\* AutoWireBeans, the runners, the OnStartApplication calls, the
\* OnStopApplication calls.
Stage(e) ==
    CASE e[1] = "prepare"            -> 1
      [] e[1] = "AfterPrepare"       -> 2
      [] e[1] = "AutoWireBeans"      -> 3
      [] e[1] = "Run"                -> 4
      [] e[1] = "OnStartApplication" -> 5
      [] e[1] = "OnStopApplication"  -> 6

\* How many events a stage has when it is complete.
StageSize(n) ==
    CASE n = 2 -> NumHooks
      [] n = 4 -> NumRunners
      [] n = 5 -> NumEvents
      [] n = 6 -> NumEvents
      [] OTHER -> 1

EventsOfStage(n) == {i \in DOMAIN events : Stage(events[i]) = n}

\* C14: the events of a Run come stage by stage: an event of a later stage
\* comes only when every event of every earlier stage has come (prepare,
\* every AfterPrepare hook, AutoWireBeans, every runner, every
\* OnStartApplication, and only then an OnStopApplication), each once and
\* in the order of its list, also when exitChan was closed while start()
\* was under way.
C14_LifecycleOrder ==
    /\ \A i, j \in DOMAIN events : i < j =>
          \/ Stage(events[i]) < Stage(events[j])
          \/ Stage(events[i]) = Stage(events[j]) /\ events[i][2] < events[j][2]
    /\ \A i \in DOMAIN events : \A n \in 1..(Stage(events[i]) - 1) :
          Cardinality(EventsOfStage(n)) = StageSize(n)
    /\ \A n \in 1..6 : Cardinality(EventsOfStage(n)) <= StageSize(n)

\* exitChan was closed while start() was under way, and the Run has gone
\* through every stage and returned.
C14_Witness ==
    /\ closedEarly
    /\ mainPc = "returned"
    /\ \A n \in 1..6 : Cardinality(EventsOfStage(n)) = StageSize(n)
----------------------------------------------------------------------------
(* bean.OptionArg and bean.FnOptionBindingArg.                             *)

\* The option functions: name -> number of parameters (none is variadic).
OptionFns == [withClassName |-> 2, withFloor |-> 1]

\* The conditions an option is declared with: none, one that the assembly
\* matches, one that it does not.
OptionConds == {"nil", "matches", "fails"}

\* assembly.Matches(cond), for the conditions above.
Matches(cond) == cond = "matches"

\* NewOptionArg(fn, tags...).WithCondition(cond): the binding of the tags is
\* built at once, and panics as NewFnStringBindingArg does.
NewOptionArg(decl) ==
    LET r == NewFnStringBindingArg(OptionFns[decl.fn], FALSE, FALSE, decl.tags) IN
    [err |-> r.err,
     opt |-> [cond |-> decl.cond, fn |-> decl.fn, arg |-> r.fnTags, line |-> decl.line]]

\* The options built from the k-th declaration on, up to the first panic.
RECURSIVE newOptions(_, _, _)
newOptions(decls, k, acc) ==
    IF k > Len(decls) THEN [err |-> NoErr, opts |-> acc]
    ELSE LET r == NewOptionArg(decls[k]) IN
         IF r.err # NoErr THEN [err |-> r.err, opts |-> acc]
         ELSE newOptions(decls, k + 1, Append(acc, r.opt))

\* OptionArg.call with the condition not looked at.
call_always(opt) ==
    [ok |-> TRUE,
     v  |-> [fn |-> opt.fn,
             in |-> Get(opt.arg, OptionFns[opt.fn], FALSE, FALSE)]]

\* OptionArg.call: the arguments are bound and the option function called
\* when there is no condition or the assembly matches it.
call(opt) ==
    IF opt.cond = "nil" \/ Matches(opt.cond)
    THEN [ok |-> TRUE,
          v  |-> [fn |-> opt.fn,
                  in |-> Get(opt.arg, OptionFns[opt.fn], FALSE, FALSE)]]
    ELSE [ok |-> FALSE, v |-> <<>>]

\* FnOptionBindingArg.Get: the loop over arg.Options from the k-th one;
\* acc holds the result, the functions called and the options bound so far.
RECURSIVE optionLoop(_, _, _)
optionLoop(opts, k, acc) ==
    IF k > Len(opts) THEN acc
    ELSE LET c == call(opts[k]) IN
         optionLoop(opts, k + 1,
             IF c.ok
             THEN [result |-> Append(acc.result, c.v),
                   called |-> Append(acc.called, opts[k].fn),
                   bound  |-> Append(acc.bound, opts[k].line)]
             ELSE acc)

\* bean.Make(fn).Options(NewOptionArg(...), ...): the options are built.
NewOptions ==
    /\ optPc = "new"
    /\ LET r == newOptions(optionDecls, 1, <<>>) IN
          /\ optErr' = r.err
          /\ Options' = IF r.err = NoErr THEN r.opts ELSE <<>>
          /\ optPc' = IF r.err = NoErr THEN "built" ELSE "panic"
    /\ UNCHANGED <<optionDecls, optResult, optCalled, optBound>>
    /\ UNCHANGED <<confVars, argVars, appVars, beanVars>>

\* FnOptionBindingArg.Get
OptionGet ==
    /\ optPc = "built"
    /\ LET r == optionLoop(Options, 1, [result |-> <<>>, called |-> <<>>, bound |-> <<>>]) IN
          /\ optResult' = r.result
          /\ optCalled' = r.called
          /\ optBound' = r.bound
    /\ optPc' = "got"
    /\ UNCHANGED <<optionDecls, Options, optErr>>
    /\ UNCHANGED <<confVars, argVars, appVars, beanVars>>

\* The tags an option is declared with: none, two plain tags, two indexed
\* tags out of order, and a list that does not bind.
OptionTags ==
    { <<>>,
      << <<"a">>, <<"b">> >>,
      << <<"1", ":", "b">>, <<"0", ":", "a">> >>,
      << <<"a">>, <<"0", ":", "a">> >> }

\* The declarations of n options; `line` is the place of the declaration.
OptionDecls(n) ==
    { [i \in 1..n |-> [cond |-> d[i][1], fn |-> d[i][2], tags |-> d[i][3], line |-> i]] :
          d \in [1..n -> OptionConds \X (DOMAIN OptionFns) \X OptionTags] }

InitOpt ==
    /\ optionDecls \in UNION {OptionDecls(n) : n \in 0..MaxOptions}
    /\ Options = <<>> /\ optPc = "new" /\ optErr = NoErr
    /\ optResult = <<>> /\ optCalled = <<>> /\ optBound = <<>>
    /\ ConfIdle /\ ArgIdle /\ AppNew("idle") /\ BeansIdle

NextOpt == NewOptions \/ OptionGet

SpecOpt == InitOpt /\ [][NextOpt]_vars

----------------------------------------------------------------------------
(* The option claim.                                                       *)

\* The declarations, from the k-th on, whose condition is absent or matched.
RECURSIVE Surviving(_)
Surviving(k) ==
    IF k > Len(optionDecls) THEN <<>>
    ELSE (IF optionDecls[k].cond # "fails" THEN <<k>> ELSE <<>>) \o Surviving(k + 1)

\* C11: FnOptionBindingArg.Get returns one value for each option whose
\* condition is absent or matched, in the order of declaration; an option
\* whose condition is not matched gives no value and no error, its function
\* is not called and its arguments are not bound.
C11_OptionsByCondition ==
    optPc = "got" =>
        /\ optBound = Surviving(1)
        /\ optCalled = [j \in DOMAIN Surviving(1) |-> optionDecls[Surviving(1)[j]].fn]
        /\ Len(optResult) = Len(Surviving(1))
        /\ \A j \in DOMAIN optResult :
              /\ optResult[j].fn = optionDecls[Surviving(1)[j]].fn
              /\ Len(optResult[j].in) = OptionFns[optResult[j].fn]
        /\ optErr = NoErr

\* Get has run over an option whose condition is not matched, followed by
\* one whose condition is: only the second gave a value.
C11_Witness ==
    /\ optPc = "got"
    /\ Len(optionDecls) = 2
    /\ optionDecls[1].cond = "fails"
    /\ optionDecls[2].cond = "matches"
    /\ optionDecls[1].tags # <<>>
    /\ optBound = <<2>>
    /\ Len(optResult) = 1
----------------------------------------------------------------------------
(* Conditions at AutoWireBeans: the definitions registered are decided one  *)
(* by one, in any order, until none is left; a definition whose condition   *)
(* or parent is not decided yet is put off.                                 *)

\* The definitions a test registers, each of a type of its own, and the
\* selectors of OnBean: "D" matches no definition.
DefNames == {"A", "B", "C"}
Selectors == DefNames \cup {"D"}

NoCond == [kind |-> "none", sel |-> "none"]
OnProperty(present) == [kind |-> "OnProperty", sel |-> IF present THEN "set" ELSE "missing"]
OnBean(sel) == [kind |-> "OnBean", sel |-> sel]

Registered == {registry[i] : i \in DOMAIN registry}

\* The definitions that survive: GetBeanDefinitions after AutoWireBeans.
GetBeanDefinitions == {d \in Registered : status[d] = "resolved"}

IsChild(d) == parents[d] # "none"

\* The condition of d against the beans resolved so far.
Evaluate(d) ==
    CASE conds[d].kind = "none"       -> TRUE
      [] conds[d].kind = "OnProperty" -> conds[d].sel = "set"
      [] conds[d].kind = "OnBean"     ->
             conds[d].sel \in Registered /\ status[conds[d].sel] = "resolved"

\* d can be decided with the definitions that are not decided counted as
\* missing.
Ready_noDefer(d) ==
    /\ status[d] = "undecided"
    /\ IsChild(d) => status[parents[d]] # "undecided"

\* d can be decided: its parent is decided, and so is the definition its
\* condition is about.
Ready(d) ==
    /\ status[d] = "undecided"
    /\ IsChild(d) => status[parents[d]] # "undecided"
    /\ ~(/\ conds[d].kind = "OnBean"
          /\ conds[d].sel \in Registered
          /\ status[conds[d].sel] = "undecided")

\* ctx.RegisterBean(def); a method bean is made from the handle that
\* registering its parent returned.
RegisterBean(d) ==
    /\ wirePc = "registering"
    /\ d \notin Registered
    /\ IsChild(d) => parents[d] \in Registered
    /\ registry' = Append(registry, d)
    /\ status' = [status EXCEPT ![d] = "undecided"]
    /\ UNCHANGED <<conds, parents, wirePc, nilReceiver>>
    /\ UNCHANGED <<confVars, argVars, appVars, optVars>>

\* ctx.AutoWireBeans() is called.
BeginAutoWire ==
    /\ wirePc = "registering"
    /\ wirePc' = "wiring"
    /\ UNCHANGED <<conds, parents, registry, status, nilReceiver>>
    /\ UNCHANGED <<confVars, argVars, appVars, optVars>>

\* Deciding d by its own condition alone.
Decide_ownConditionOnly(d) ==
    /\ wirePc = "wiring"
    /\ Ready(d)
    /\ status' = [status EXCEPT ![d] = IF Evaluate(d) THEN "resolved" ELSE "excluded"]
    /\ nilReceiver' = (nilReceiver \/
                          (Evaluate(d) /\ IsChild(d) /\ status[parents[d]] # "resolved"))
    /\ UNCHANGED <<conds, parents, registry, wirePc>>
    /\ UNCHANGED <<confVars, argVars, appVars, optVars>>

\* AutoWireBeans decides d: a method bean whose parent is excluded is
\* excluded; otherwise d is excluded when its condition is false, and
\* resolved when it is true or absent, a method bean by a call of the
\* method on its parent.
Decide(d) ==
    /\ wirePc = "wiring"
    /\ Ready(d)
    /\ IF IsChild(d) /\ status[parents[d]] = "excluded"
       THEN /\ status' = [status EXCEPT ![d] = "excluded"]
            /\ nilReceiver' = nilReceiver
       ELSE /\ status' = [status EXCEPT ![d] =
                              IF Evaluate(d) THEN "resolved" ELSE "excluded"]
            /\ nilReceiver' = (nilReceiver \/
                   (Evaluate(d) /\ IsChild(d) /\ status[parents[d]] # "resolved"))
    /\ UNCHANGED <<conds, parents, registry, wirePc>>
    /\ UNCHANGED <<confVars, argVars, appVars, optVars>>

Undecided == {d \in Registered : status[d] = "undecided"}

\* AutoWireBeans returns: every definition is decided.
EndAutoWire ==
    /\ wirePc = "wiring"
    /\ Undecided = {}
    /\ wirePc' = "done"
    /\ UNCHANGED <<conds, parents, registry, status, nilReceiver>>
    /\ UNCHANGED <<confVars, argVars, appVars, optVars>>

\* AutoWireBeans panics: the conditions of the definitions left wait for
\* one another.
ConditionCycle ==
    /\ wirePc = "wiring"
    /\ Undecided # {}
    /\ \A d \in Undecided : ~Ready(d)
    /\ wirePc' = "panic"
    /\ UNCHANGED <<conds, parents, registry, status, nilReceiver>>
    /\ UNCHANGED <<confVars, argVars, appVars, optVars>>

\* The conditions a definition is given.
CondChoices ==
    {NoCond, OnProperty(TRUE), OnProperty(FALSE)} \cup {OnBean(x) : x \in Selectors}

\* The definitions given a parent: MaxChildren of them at most.
ParentChoices ==
    { p \in [DefNames -> DefNames \cup {"none"}] :
          /\ \A d \in DefNames : p[d] # d
          /\ Cardinality({d \in DefNames : p[d] # "none"}) <= MaxChildren }

InitBeans ==
    /\ conds \in [DefNames -> CondChoices]
    /\ parents \in ParentChoices
    /\ registry = <<>>
    /\ status = [d \in DefNames |-> "unregistered"]
    /\ wirePc = "registering"
    /\ nilReceiver = FALSE
    /\ ConfIdle /\ ArgIdle /\ AppNew("idle") /\ OptIdle

NextBeans ==
    \/ \E d \in DefNames : RegisterBean(d)
    \/ BeginAutoWire
    \/ \E d \in DefNames : Decide(d)
    \/ EndAutoWire
    \/ ConditionCycle

SpecBeans == InitBeans /\ [][NextBeans]_vars
----------------------------------------------------------------------------
(* The condition claims.                                                   *)

\* The condition of d is absent or true once every definition is decided.
OwnConditionPasses(d) == Evaluate(d)

\* C12: a method bean is never resolved, and its method never called, when
\* its parent is not resolved; once AutoWireBeans has returned, a method
\* bean whose parent is excluded is excluded whatever its own condition,
\* and one whose parent is resolved and whose own condition is false is
\* excluded while the parent stays resolved.
C12_ChildGatedByParent ==
    /\ ~nilReceiver
    /\ \A d \in Registered :
          (IsChild(d) /\ status[d] = "resolved") => status[parents[d]] = "resolved"
    /\ wirePc = "done" =>
          \A d \in Registered : IsChild(d) =>
              /\ status[parents[d]] = "excluded" => status[d] = "excluded"
              /\ (status[parents[d]] = "resolved" /\ ~OwnConditionPasses(d)) =>
                     status[d] = "excluded"
              /\ (status[parents[d]] = "resolved" /\ OwnConditionPasses(d)) =>
                     status[d] = "resolved"

\* AutoWireBeans has returned with a method bean excluded whose own
\* condition passes and whose parent is excluded by its condition.
C12_Witness ==
    /\ wirePc = "done"
    /\ \E d \in Registered :
          /\ IsChild(d)
          /\ conds[d] = OnProperty(TRUE)
          /\ conds[parents[d]] = OnProperty(FALSE)
          /\ status[parents[d]] = "excluded"
          /\ status[d] = "excluded"

\* What the definitions registered and their conditions say of d, whatever
\* the order: d survives when its parent does, if it has one, and its
\* condition is absent, a property condition that holds, or OnBean of a
\* definition that survives; n bounds the length of the chain.
RECURSIVE Survives(_, _)
Survives(d, n) ==
    /\ n > 0
    /\ d \in Registered
    /\ IsChild(d) => Survives(parents[d], n - 1)
    /\ CASE conds[d].kind = "none"       -> TRUE
         [] conds[d].kind = "OnProperty" -> conds[d].sel = "set"
         [] conds[d].kind = "OnBean"     -> Survives(conds[d].sel, n - 1)

\* A OnBean(B), B OnBean(C), C OnBean(D), and nothing matches D.
Chain ==
    /\ conds["A"] = OnBean("B") /\ conds["B"] = OnBean("C") /\ conds["C"] = OnBean("D")
    /\ \A d \in DefNames : ~IsChild(d)

\* C13: once AutoWireBeans has returned, in every order of registration and
\* of visit, the definitions that survive are those that the definitions
\* and conditions registered say; one with the condition OnBean(X) (and no
\* parent) survives exactly when a definition matching X survives; and in
\* the chain A OnBean(B), B OnBean(C), C OnBean(D) AutoWireBeans returns
\* with no definition surviving.
C13_OnBeanOrderIndependent ==
    /\ wirePc = "done" =>
          /\ \A d \in Registered :
                (status[d] = "resolved") <=> Survives(d, Cardinality(DefNames))
          /\ \A d \in Registered : (conds[d].kind = "OnBean" /\ ~IsChild(d)) =>
                ((d \in GetBeanDefinitions) <=> (conds[d].sel \in GetBeanDefinitions))
    /\ Chain => wirePc # "panic"
    /\ (Chain /\ wirePc = "done") => GetBeanDefinitions = {}

\* A OnBean(B) was registered before B OnBean(C) and C; all three survive.
C13_Witness ==
    /\ wirePc = "done"
    /\ registry = <<"A", "B", "C">>
    /\ conds["A"] = OnBean("B") /\ conds["B"] = OnBean("C") /\ conds["C"] = NoCond
    /\ GetBeanDefinitions = {"A", "B", "C"}

\* The chain of the test, registered in the test's order, has been wired.
C13_ChainWired ==
    /\ Chain
    /\ wirePc = "done"
    /\ registry = <<"A", "B", "C">>
====
